---- MODULE Spec2Model ----
(***************************************************************************)
(* A model of md-toc's api.py: the ATX heading recognizer, the anchor link  *)
(* builder, the ordered list index tracker, the TOC line formatter and the  *)
(* build_toc loop that drives them.                                         *)
(*                                                                          *)
(* A Python str is a sequence of characters; a character is a one-character *)
(* TLA+ string.  Positions are kept 0-based as in the source: At(s, i) is   *)
(* s[i] of the source.                                                      *)
(***************************************************************************)
EXTENDS Integers, Sequences, FiniteSets, TLC

(***************************************************************************)
(* Program constants (api.py, lines 30-35).                                 *)
(***************************************************************************)
MD_PARSER_GITHUB_MAX_CHARS_LINK_LABEL == 999
MD_PARSER_GITHUB_MAX_INDENTATION == 3
MD_PARSER_GITHUB_MAX_HEADER_LEVELS == 6
MD_PARSER_GITHUB_MAX_ORDERED_LIST_MARKER == 999999999
MD_PARSER_REDCARPET_MAX_HEADER_LEVELS == 6

(***************************************************************************)
(* Characters and strings.                                                  *)
(***************************************************************************)
BS == "\\"
LF == "\n"
CR == "\r"
TAB == "\t"
FF == "\f"
\* U+000B has no TLA+ escape: it is the token "VT".
VT == "VT"
\* U+0060, the grave accent, opens a quotation for the TLA+ lexer even inside a
\* string: it is the token "GRAVE".
GRAVE == "GRAVE"

At(s, i) == s[i + 1]

\* s[a:b] for 0 <= a, 0 <= b (no negative indices are used with it).
Slice(s, a, b) ==
    LET hi == IF b > Len(s) THEN Len(s) ELSE b
    IN  IF a >= hi THEN <<>> ELSE SubSeq(s, a + 1, hi)

\* str.find(c): the first position of character c, or -1.
Find(s, c) ==
    IF \E j \in 1..Len(s) : s[j] = c
    THEN (CHOOSE j \in 1..Len(s) : s[j] = c /\ \A m \in 1..(j - 1) : s[m] # c) - 1
    ELSE -1

Min(a, b) == IF a < b THEN a ELSE b

\* The value of i after "while i < n and Cond(i): i += 1".
WhileUp(i, n, Cond) ==
    IF i >= n THEN i
    ELSE CHOOSE j \in i..n :
             (j = n \/ ~Cond[j]) /\ \A m \in i..(j - 1) : Cond[m]

\* The value of i after "while i > n and Cond(i - 1): i -= 1".
WhileDown(i, n, Cond) ==
    IF i <= n THEN i
    ELSE CHOOSE j \in n..i :
             (j = n \/ ~Cond[j - 1]) /\ \A m \in j..(i - 1) : Cond[m]

\* str.strip(c) for a one-character argument.
StripChar(s, c) ==
    IF \A j \in 1..Len(s) : s[j] = c THEN <<>>
    ELSE LET first == CHOOSE j \in 1..Len(s) :
                          s[j] # c /\ \A m \in 1..(j - 1) : s[m] = c
             last == CHOOSE j \in 1..Len(s) :
                          s[j] # c /\ \A m \in (j + 1)..Len(s) : s[m] = c
         IN  SubSeq(s, first, last)

(***************************************************************************)
(* Results of get_atx_heading: None, a (level, text) tuple, or an           *)
(* exception.                                                               *)
(***************************************************************************)
NoneResult == [kind |-> "None", type |-> 0, text |-> <<>>, error |-> "none"]
HeadingResult(level, text) ==
    [kind |-> "heading", type |-> level, text |-> text, error |-> "none"]
RaiseResult(e) == [kind |-> "raise", type |-> 0, text |-> <<>>, error |-> e]

GithubLike(parser) == parser = "github" \/ parser = "cmark"
RedcarpetLike(parser) == parser = "redcarpet" \/ parser = "gitlab"

(***************************************************************************)
(* get_atx_heading, github and cmark (api.py, lines 446-545).               *)
(***************************************************************************)
\* lines 451-455: the indentation loop, from position i.
GithubIndentation(line, i) ==
    WhileUp(i, Len(line),
            [j \in 0..Len(line) |->
                At(line, j) = " " /\ j <= MD_PARSER_GITHUB_MAX_INDENTATION])

\* lines 459-463: the marker loop, from position i.
GithubMarker(line, i, offset) ==
    WhileUp(i, Len(line),
            [j \in 0..Len(line) |->
                At(line, j) = "#"
                /\ j <= MD_PARSER_GITHUB_MAX_HEADER_LEVELS + offset])

\* lines 476-477 and 561-562: skip the spaces from position i.
SkipSpaces(line, i) ==
    WhileUp(i, Len(line), [j \in 0..Len(line) |-> At(line, j) = " "])

\* line_prime = line[::-1] (line 485): line_prime[i].
LinePrime(line, i) == line[Len(line) - i]

\* lines 498-499 and 501-502: while go_on and line_prime[i] == c: i += 1.
\* The loop has no bound of its own: it ends at a character that is not c.
SkipPrime(line, i, c) ==
    WhileUp(i, Len(line) + 1, [j \in 0..Len(line) |-> LinePrime(line, j) = c])

\* lines 490-504: the loop that looks for the closing sequence.
RECURSIVE ClosingSequenceLoop(_, _, _)
ClosingSequenceLoop(line, cs_start, st) ==
    IF ~(st.i < Len(line) - cs_start - 1 /\ st.go_on) THEN st
    ELSE
      LET hit == (LinePrime(line, st.i) # " " /\ LinePrime(line, st.i) # "#")
                 \/ st.hash_char_rounds > 1
          cs_end == IF hit
                    THEN IF st.i > st.i_prev THEN Len(line) - st.i_prev
                                             ELSE Len(line) - st.i
                    ELSE st.cs_end
          go_on == ~hit
          i1 == IF go_on THEN SkipPrime(line, st.i, " ") ELSE st.i
          i_prev == i1
          i2 == IF go_on THEN SkipPrime(line, i1, "#") ELSE i1
          rounds == IF i2 > i_prev THEN st.hash_char_rounds + 1
                                   ELSE st.hash_char_rounds
      IN  ClosingSequenceLoop(line, cs_start,
              [i |-> i2, i_prev |-> i_prev, cs_end |-> cs_end,
               hash_char_rounds |-> rounds, go_on |-> go_on])

\* lines 483-513: cs_end, the end of the heading text.
GithubCsEnd(line, cs_start) ==
    LET st == ClosingSequenceLoop(line, cs_start,
                  [i |-> 0, i_prev |-> 0, cs_end |-> cs_start,
                   hash_char_rounds |-> 0, go_on |-> TRUE])
        find_newline == Find(line, LF)
        find_carriage_return == Find(line, CR)
        e1 == IF find_newline # -1 THEN Min(st.cs_end, find_newline) ELSE st.cs_end
    IN  IF find_carriage_return # -1 THEN Min(e1, find_carriage_return) ELSE e1

\* lines 530-534: the number of backslashes that end at position j
\* (j - 1 of the loop steps down from j to -1).
ConsecutiveEscapes(final_line, j) ==
    (j + 1) - WhileDown(j + 1, 0, [m \in 0..Len(final_line) |-> At(final_line, m) = BS])

\* lines 544-545: i += 1 up to the next square bracket.
NextBracket(final_line, i) ==
    WhileUp(i, Len(final_line),
            [j \in 0..Len(final_line) |->
                ~(At(final_line, j) = "[" \/ At(final_line, j) = "]")])

\* lines 527-545: escape the square brackets that are not escaped yet, from
\* position i.
RECURSIVE EscapeBrackets(_, _)
EscapeBrackets(final_line, i) ==
    LET b == NextBracket(final_line, i)
    IN  IF ~(b < Len(final_line)) THEN final_line
        ELSE LET n == ConsecutiveEscapes(final_line, b - 1)
                 tmp == IF (n > 0 /\ n % 2 = 0) \/ n = 0 THEN <<BS>> ELSE <<>>
             IN  EscapeBrackets(Slice(final_line, 0, b) \o tmp
                                    \o Slice(final_line, b, Len(final_line)),
                                b + 1 + Len(tmp))

\* lines 518-519 and 576-577: a text that ends with a backslash gets a space.
AppendSpaceAfterBackslash(final_line) ==
    IF Len(final_line) > 0 /\ final_line[Len(final_line)] = BS
    THEN final_line \o <<" ">>
    ELSE final_line

\* lines 520-522: the chain of strip calls.
StripChain(final_line) ==
    StripChar(StripChar(StripChar(StripChar(StripChar(StripChar(
        final_line, " "), TAB), LF), VT), FF), CR)

\* Line 524 with >= for >.
LinkLabelOverflowFromLimit(final_line) ==
    Len(final_line) >= MD_PARSER_GITHUB_MAX_CHARS_LINK_LABEL

\* line 524: the link label is too long.
LinkLabelOverflow(final_line) ==
    Len(final_line) > MD_PARSER_GITHUB_MAX_CHARS_LINK_LABEL

\* lines 517-545: the link label checks and the escaping.
GithubLinkLabel(current_headers, text) ==
    LET final_line == AppendSpaceAfterBackslash(text)
    IN  IF Len(StripChain(final_line)) = 0 THEN RaiseResult("GithubEmptyLinkLabel")
        ELSE IF LinkLabelOverflow(final_line)
        THEN RaiseResult("GithubOverflowCharsLinkLabel")
        ELSE HeadingResult(current_headers, EscapeBrackets(final_line, 0))

\* lines 464-465: the marker run is not a heading of a kept level.
GithubLevelRejected(n, keep_header_levels) ==
    n > MD_PARSER_GITHUB_MAX_HEADER_LEVELS \/ n > keep_header_levels \/ n = 0

GithubAtxHeading(line, keep_header_levels, no_links) ==
    IF At(line, 0) = BS THEN NoneResult
    ELSE
      LET offset == GithubIndentation(line, 0)
          i == GithubMarker(line, offset, offset)
          current_headers == i - offset
          cs_start == SkipSpaces(line, i + 1)
          final_line == Slice(line, cs_start, GithubCsEnd(line, cs_start))
      IN  IF offset > MD_PARSER_GITHUB_MAX_INDENTATION THEN NoneResult
          ELSE IF GithubLevelRejected(current_headers, keep_header_levels)
          THEN NoneResult
          ELSE IF i < Len(line) /\ At(line, i) # " " /\ At(line, i) # LF
                  /\ At(line, i) # CR
          THEN NoneResult
          ELSE IF no_links THEN HeadingResult(current_headers, final_line)
          ELSE GithubLinkLabel(current_headers, final_line)

(***************************************************************************)
(* get_atx_heading, redcarpet and gitlab (api.py, lines 547-581).           *)
(***************************************************************************)
\* lines 552-555: the marker loop.
RedcarpetMarker(line, i) ==
    WhileUp(i, Len(line),
            [j \in 0..Len(line) |->
                j < MD_PARSER_REDCARPET_MAX_HEADER_LEVELS /\ At(line, j) = "#"])

\* lines 564-566: the end of the line.
RedcarpetLineEnd(line, end) ==
    WhileUp(end, Len(line), [j \in 0..Len(line) |-> At(line, j) # LF])

\* lines 568-572: step back over the characters c that end the text.
RedcarpetStepBack(line, end, c) ==
    WhileDown(end, 0, [j \in 0..Len(line) |-> At(line, j) = c])

\* The redcarpet and gitlab rules never read keep_header_levels.
RedcarpetAtxHeading(line, keep_header_levels, no_links) ==
    IF At(line, 0) # "#" THEN NoneResult
    ELSE
      LET m == RedcarpetMarker(line, 0)
          current_headers == m
          i == SkipSpaces(line, m)
          end == RedcarpetStepBack(line,
                     RedcarpetStepBack(line, RedcarpetLineEnd(line, i), "#"),
                     " ")
      IN  IF m < Len(line) /\ At(line, m) # " " THEN NoneResult
          ELSE IF end > i
          THEN IF ~no_links /\ line[Len(line)] = BS
               THEN HeadingResult(current_headers,
                                  Slice(line \o <<" ">>, i, end + 1))
               ELSE HeadingResult(current_headers, Slice(line, i, end))
          ELSE NoneResult

(***************************************************************************)
(* get_atx_heading (api.py, lines 405-587).  With a parser that is none of  *)
(* the four, no branch binds current_headers and final_line, and the        *)
(* return statement of line 587 raises UnboundLocalError.                   *)
(***************************************************************************)
get_atx_heading(line, keep_header_levels, parser, no_links) ==
    IF Len(line) = 0 THEN NoneResult
    ELSE IF GithubLike(parser)
    THEN GithubAtxHeading(line, keep_header_levels, no_links)
    ELSE IF RedcarpetLike(parser)
    THEN RedcarpetAtxHeading(line, keep_header_levels, no_links)
    ELSE RaiseResult("UnboundLocalError")

(***************************************************************************)
(* Character classes and conversions used by build_anchor_link.             *)
(***************************************************************************)
UpperLetters ==
    <<"A", "B", "C", "D", "E", "F", "G", "H", "I", "J", "K", "L", "M",
      "N", "O", "P", "Q", "R", "S", "T", "U", "V", "W", "X", "Y", "Z">>
LowerLetters ==
    <<"a", "b", "c", "d", "e", "f", "g", "h", "i", "j", "k", "l", "m",
      "n", "o", "p", "q", "r", "s", "t", "u", "v", "w", "x", "y", "z">>
Digits == <<"0", "1", "2", "3", "4", "5", "6", "7", "8", "9">>

\* The printable ASCII characters, U+0020 to U+007E, in code order.
AsciiPrintable ==
    <<" ", "!", "\"", "#", "$", "%", "&", "'", "(", ")", "*", "+", ",", "-",
      ".", "/">> \o Digits \o <<":", ";", "<", "=", ">", "?", "@">>
    \o UpperLetters \o <<"[", BS, "]", "^", "_", GRAVE>>
    \o LowerLetters \o <<"{", "|", "}", "~">>

Range(s) == {s[j] : j \in 1..Len(s)}
IndexOf(s, c) == CHOOSE j \in 1..Len(s) : s[j] = c

\* A character that is not ASCII is a token "U+XXXX"; U+00E9 is a letter.
NonAsciiLetters == {"U+00E9"}
AsciiControls == {TAB, LF, VT, FF, CR}

AsciiChars == Range(AsciiPrintable) \cup AsciiControls
UpperChars == Range(UpperLetters)
WordChars ==
    Range(UpperLetters) \cup Range(LowerLetters) \cup Range(Digits)
        \cup {"_"} \cup NonAsciiLetters

\* curses.ascii.isascii (line 360).
IsAscii(c) == c \in AsciiChars

\* ord (line 382).
Ord(c) ==
    IF c \in AsciiChars \ AsciiControls THEN 31 + IndexOf(AsciiPrintable, c)
    ELSE IF c = TAB THEN 9
    ELSE IF c = LF THEN 10
    ELSE IF c = VT THEN 11
    ELSE IF c = FF THEN 12
    ELSE IF c = CR THEN 13
    ELSE 233

\* str.lower on one character (lines 325 and 367-368).
Lower(c) ==
    IF c \in UpperChars THEN LowerLetters[IndexOf(UpperLetters, c)]
    ELSE c

\* \w of the re module.
IsWord(c) == c \in WordChars

\* \s of the re module.
IsSpace(c) == c \in {" ", TAB, LF, VT, FF, CR}

\* str(n) for n >= 0 (lines 268 and 339-340).
RECURSIVE Str(_)
Str(n) == IF n < 10 THEN <<Digits[n + 1]>>
          ELSE Str(n \div 10) \o <<Digits[(n % 10) + 1]>>

(***************************************************************************)
(* build_anchor_link (api.py, lines 291-402).                               *)
(***************************************************************************)
\* line 328: the characters that re.sub leaves in place.
GithubKept(c) == IsWord(c) \/ IsSpace(c) \/ c = "-" \/ c = " "

\* lines 325-329: the github and cmark candidate.
GithubCandidate(header_text_trimmed) ==
    LET lowered == [j \in 1..Len(header_text_trimmed) |->
                        Lower(header_text_trimmed[j])]
        kept == SelectSeq(lowered, GithubKept)
    IN  [j \in 1..Len(kept) |-> IF kept[j] = " " THEN "-" ELSE kept[j]]

\* line 346.
STRIPPED ==
    <<" ", "-", "&", "+", "$", ",", "/", ":", ";", "=", "?", "@", "\"", "#",
      "{", "}", "|", "^", "~", "[", "]", GRAVE, BS, "*", "(", ")", "%", ".",
      "!", "'">>
StrippedChars == Range(STRIPPED)

\* lines 353-354 and 356-357: the inner while loop, from position i.
SkipUntil(text, i, closer) ==
    WhileUp(i, Len(text), [j \in 0..Len(text) |-> At(text, j) # closer])

\* lines 351-370: the for loop, from position i.  The inner while loops
\* advance the loop variable, and the for statement binds it again to the
\* next value of range(): the scan goes on at i + 1 whatever they reached.
RECURSIVE RedcarpetScan(_, _, _)
RedcarpetScan(text, i, st) ==
    IF ~(i < Len(text)) THEN st
    ELSE
      LET c == At(text, i)
          after_tag == SkipUntil(text, i, ">")
          after_entity == SkipUntil(text, i, ";")
      IN  IF c = "<" THEN RedcarpetScan(text, i + 1, st)
          ELSE IF c = "&" THEN RedcarpetScan(text, i + 1, st)
          ELSE IF ~IsAscii(c) \/ c \in StrippedChars
          THEN RedcarpetScan(text, i + 1,
                   [st EXCEPT !.middle_stage =
                                  IF st.inserted > 0 /\ st.stripped = 0
                                  THEN @ \o <<"-">> ELSE @,
                              !.stripped = 1])
          ELSE RedcarpetScan(text, i + 1,
                   [st EXCEPT !.middle_stage = @ \o <<Lower(c)>>,
                              !.stripped = 0,
                              !.inserted = @ + 1])

\* A natural number as its hexadecimal digits, least significant first.
RECURSIVE HexDigits(_)
HexDigits(n) == IF n = 0 THEN <<>> ELSE <<n % 16>> \o HexDigits(n \div 16)

\* The step with a shift of 4 bits: ((hash << 4) + hash) + carry.
RECURSIVE HashStepShift4(_, _)
HashStepShift4(hash, carry) ==
    IF hash = <<>> THEN HexDigits(carry)
    ELSE LET v == (Head(hash) * 16 + Head(hash)) + carry
         IN  <<v % 16>> \o HashStepShift4(Tail(hash), v \div 16)

\* line 382: ((hash << 5) + hash) + carry, on the hexadecimal digits of hash
\* (a Python int has no width).
RECURSIVE HashStep(_, _)
HashStep(hash, carry) ==
    IF hash = <<>> THEN HexDigits(carry)
    ELSE LET v == (Head(hash) * 32 + Head(hash)) + carry
         IN  <<v % 16>> \o HashStep(Tail(hash), v \div 16)

\* lines 377-382: the hash of the text, from position i.
RECURSIVE HashLoop(_, _, _)
HashLoop(text, i, hash) ==
    IF ~(i < Len(text)) THEN hash
    ELSE HashLoop(text, i + 1, HashStep(hash, Ord(At(text, i))))

HexChars == Digits \o <<"a", "b", "c", "d", "e", "f">>

\* line 387: '{0:x}'.format(hash).
FormatHex(hash) ==
    IF hash = <<>> THEN <<"0">>
    ELSE [j \in 1..Len(hash) |-> HexChars[hash[Len(hash) + 1 - j] + 1]]

\* lines 376-387: the anchor of a text no character of which was inserted.
HashFallback(text) ==
    <<"p", "a", "r", "t", "-">> \o FormatHex(HashLoop(text, 0, HexDigits(5381)))

\* lines 346-387: the redcarpet and gitlab candidate.
RedcarpetCandidate(header_text_trimmed) ==
    LET st == RedcarpetScan(header_text_trimmed, 0,
                  [inserted |-> 0, stripped |-> 0, middle_stage |-> <<>>])
        cut == IF st.stripped > 0 /\ st.inserted > 0
               THEN Slice(st.middle_stage, 0, Len(st.middle_stage) - 1)
               ELSE st.middle_stage
    IN  IF st.inserted = 0 /\ Len(header_text_trimmed) > 0
        THEN HashFallback(header_text_trimmed)
        ELSE cut

\* lines 341 and 400: the key whose count goes up.
DuplicateKey(ht, anchor) == ht

\* The check for duplicates with line 341 (and 400) left out: the count of a
\* candidate stays 0.
CheckDuplicatesNeverCounts(candidate, header_duplicate_counter) ==
    LET counter == IF candidate \in DOMAIN header_duplicate_counter
                   THEN header_duplicate_counter
                   ELSE header_duplicate_counter @@ (candidate :> 0)
        anchor == IF counter[candidate] > 0
                  THEN candidate \o <<"-">> \o Str(counter[candidate])
                  ELSE candidate
    IN  [kind |-> "str", anchor |-> anchor, counter |-> counter]

\* lines 332-341 and 394-400: the check for duplicates.
CheckDuplicates(candidate, header_duplicate_counter) ==
    LET counter == IF candidate \in DOMAIN header_duplicate_counter
                   THEN header_duplicate_counter
                   ELSE header_duplicate_counter @@ (candidate :> 0)
        anchor == IF counter[candidate] > 0
                  THEN candidate \o <<"-">> \o Str(counter[candidate])
                  ELSE candidate
        key == DuplicateKey(candidate, anchor)
    IN  [kind |-> "str", anchor |-> anchor,
         counter |-> [counter EXCEPT ![key] = @ + 1]]

\* The value and the counter after build_anchor_link; with a parser that is
\* none of the four the function falls off its end and returns None.
build_anchor_link(header_text_trimmed, header_duplicate_counter, parser) ==
    IF GithubLike(parser)
    THEN CheckDuplicates(GithubCandidate(header_text_trimmed),
                         header_duplicate_counter)
    ELSE IF parser = "gitlab"
    THEN CheckDuplicates(RedcarpetCandidate(header_text_trimmed),
                         header_duplicate_counter)
    ELSE IF parser = "redcarpet"
    THEN [kind |-> "str", anchor |-> RedcarpetCandidate(header_text_trimmed),
          counter |-> header_duplicate_counter]
    ELSE [kind |-> "None", anchor |-> <<>>, counter |-> header_duplicate_counter]

\* The candidate that build_anchor_link looks up in the counter.
AnchorCandidate(header_text_trimmed, parser) ==
    IF GithubLike(parser) THEN GithubCandidate(header_text_trimmed)
    ELSE RedcarpetCandidate(header_text_trimmed)

(***************************************************************************)
(* increase_index_ordered_list (api.py, lines 190-227).  The dict is        *)
(* changed in place before the check of line 226: count is the dict after   *)
(* the call, error the exception raised (or "none").                        *)
(***************************************************************************)
\* lines 225-227: the marker does not fit an ordered list of the parser.
OrderedListMarkerOverflow(parser, n) ==
    parser = "github" /\ n > MD_PARSER_GITHUB_MAX_ORDERED_LIST_MARKER

\* line 223.
IncreasedCount(n) == n + 1

\* increase_index_ordered_list with a reset of the deeper levels: a heading
\* starts the numbering of the levels under it again.
increase_index_resets_deeper(header_type_count, header_type_prev, header_type_curr, parser) ==
    LET count0 == IF header_type_curr \in DOMAIN header_type_count
                  THEN header_type_count
                  ELSE header_type_count @@ (header_type_curr :> 0)
        count1 == [l \in DOMAIN count0 |->
                      IF l = header_type_curr THEN count0[l] + 1
                      ELSE IF l > header_type_curr THEN 0
                      ELSE count0[l]]
    IN  [count |-> count1,
         error |-> IF OrderedListMarkerOverflow(parser, count1[header_type_curr])
                   THEN "GithubOverflowOrderedListMarker"
                   ELSE "none"]

increase_index_ordered_list(header_type_count, header_type_prev, header_type_curr, parser) ==
    LET prev == IF header_type_prev = 0 THEN header_type_curr
                ELSE header_type_prev
        count0 == IF header_type_curr \in DOMAIN header_type_count
                  THEN header_type_count
                  ELSE header_type_count @@ (header_type_curr :> 0)
        count1 == [count0 EXCEPT ![header_type_curr] = IncreasedCount(@)]
    IN  [count |-> count1,
         error |-> IF OrderedListMarkerOverflow(parser, count1[header_type_curr])
                   THEN "GithubOverflowOrderedListMarker"
                   ELSE "none"]

(***************************************************************************)
(* build_toc_line (api.py, lines 230-288).                                  *)
(***************************************************************************)
\* n * ' '
Spaces(n) == [j \in 1..n |-> " "]

build_toc_line(header, ordered, no_links, index) ==
    LET list_symbol == IF ordered THEN Str(index) \o <<".">> ELSE <<"-">>
        no_of_indentation_spaces == 4 * (header.type - 1)
        indentation_spaces == Spaces(no_of_indentation_spaces)
        line == IF no_links THEN header.text_original
                ELSE <<"[">> \o header.text_original \o <<"]">>
                     \o <<"(", "#">> \o header.text_anchor_link \o <<")">>
    IN  indentation_spaces \o list_symbol \o <<" ">> \o line

(***************************************************************************)
(* get_md_header (api.py, lines 590-639): None, a header and the counter    *)
(* after build_anchor_link, or the exception of get_atx_heading.            *)
(***************************************************************************)
NoHeader == [type |-> 0, text_original |-> <<>>, text_anchor_link |-> <<>>]

get_md_header(header_text_line, header_duplicate_counter, keep_header_levels, parser, no_links) ==
    LET result == get_atx_heading(header_text_line, keep_header_levels, parser,
                                  no_links)
        link == build_anchor_link(result.text, header_duplicate_counter, parser)
    IN  IF result.kind = "raise"
        THEN [kind |-> "raise", error |-> result.error, header |-> NoHeader,
              counter |-> header_duplicate_counter]
        ELSE IF result.kind = "None"
        THEN [kind |-> "None", error |-> "none", header |-> NoHeader,
              counter |-> header_duplicate_counter]
        ELSE [kind |-> "header", error |-> "none",
              header |-> [type |-> result.type,
                          text_original |-> result.text,
                          text_anchor_link |-> link.anchor],
              counter |-> link.counter]

(***************************************************************************)
(* Bounds and input sets of the model.                                      *)
(***************************************************************************)
\* The longest document that build_toc reads, in lines.
MaxLines == 4
\* The longest line get_atx_heading is given, among all lines over AtxChars.
MaxLineLen == 4
\* The number of build_anchor_link calls that share one counter.
MaxCalls == 4
\* The number of times increase_index_ordered_list raises the count of one
\* level, from 0 or from the largest marker less one.
MaxBumps == 3

\* The longest text the slug builder is given, among all texts over SlugChars.
MaxSlugLen == 3

\* "foo" stands for every parser string that is none of the four.
Parsers == {"github", "cmark", "gitlab", "redcarpet", "foo"}
KnownParsers == {"github", "cmark", "gitlab", "redcarpet"}

Hashes(n) == [j \in 1..n |-> "#"]
Repeat(c, n) == [j \in 1..n |-> c]

\* The lines of the documents, without their line ending.
DocLines ==
    { <<"#", "#", " ", "H", "i">>,
      <<"h", "e", "y">>,
      <<"#", "#", "#", " ", "H", "o", "w", " ", "a", "r", "e", " ", "y", "o",
        "u", "?">> \o Spaces(11) \o <<"!", "!", "!">>,
      <<"f", "i", "n", "e", ",", " ", "t", "h", "a", "n", "k", "s">>,
      <<"#", " ", "B", "y", "e">>,
      <<"#", " ">> }

\* The last lines of the files that do not end with a line ending.
DocLastLines ==
    { <<"#", " ", "B", "y", "e">>,
      <<"h", "e", "y">> }

VARIABLES
    parser, ordered, no_links, keep_header_levels,  \* the arguments
    pc,                          \* "scan", "returned", "raised"; "call", "done"
    error,                       \* the exception raised, or "none"
    header_type_counter, header_type_curr, header_type_prev,
    toc, header_duplicate_counter,                  \* build_toc's locals
    doc,                         \* the lines read so far, in order
    headers,                     \* the headers formatted so far, with their index
    atx_line, atx_result,        \* get_atx_heading's argument and outcome
    anchor_log                   \* the build_anchor_link calls made so far

vars == <<parser, ordered, no_links, keep_header_levels, pc, error,
          header_type_counter, header_type_curr, header_type_prev, toc,
          header_duplicate_counter, doc, headers, atx_line, atx_result,
          anchor_log>>

config == <<parser, ordered, no_links, keep_header_levels>>
atx_vars == <<atx_line, atx_result>>
build_vars == <<header_type_counter, header_type_curr, header_type_prev, toc,
                header_duplicate_counter, doc, headers>>

EmptyDict == <<>>
Pending == [kind |-> "pending", type |-> 0, text |-> <<>>, error |-> "none"]

\* lines 162-167: build_toc's base cases.
BuildLocalsInit ==
    /\ header_type_counter = EmptyDict
    /\ header_type_curr = 0
    /\ header_type_prev = 0
    /\ toc = <<>>
    /\ header_duplicate_counter = EmptyDict
    /\ doc = <<>>
    /\ headers = <<>>

AtxIdle == atx_line = <<>> /\ atx_result = Pending

(***************************************************************************)
(* build_toc (api.py, lines 115-187).  The file is read in text mode: every *)
(* line ends with "\n", except a last line that the file does not end.      *)
(***************************************************************************)
Init ==
    /\ parser \in Parsers
    /\ ordered \in BOOLEAN
    /\ no_links \in BOOLEAN
    /\ keep_header_levels \in {1, 3}
    /\ pc = "scan"
    /\ error = "none"
    /\ BuildLocalsInit
    /\ AtxIdle
    /\ anchor_log = <<>>

Terminated(line) == Len(line) > 0 /\ line[Len(line)] = LF

\* The lines readline can return next.
NextLines ==
    IF Len(doc) > 0 /\ ~Terminated(doc[Len(doc)]) THEN {}
    ELSE {l \o <<LF>> : l \in DocLines} \cup DocLastLines

\* lines 176-178: the index tracker runs in an ordered build only.
TrackIndex(count, prev, curr) ==
    IF ordered THEN increase_index_ordered_list(count, prev, curr, parser)
    ELSE [count |-> count, error |-> "none"]

\* lines 180-185: the header that get_md_header returned is formatted with
\* the index that increase_index_ordered_list left in the dict (inc).
FormatHeader(header, inc) ==
    LET curr == header.type
    IN  /\ header_type_curr' = curr
        /\ header_type_counter' = inc.count
        /\ IF inc.error # "none"
           THEN /\ pc' = "raised"
                /\ error' = inc.error
                /\ UNCHANGED <<header_type_prev, toc, headers>>
           ELSE IF curr \notin DOMAIN inc.count
           THEN \* line 183: header_type_counter[header_type_curr]
                /\ pc' = "raised"
                /\ error' = "KeyError"
                /\ UNCHANGED <<header_type_prev, toc, headers>>
           ELSE /\ toc' = toc \o build_toc_line(header, ordered, no_links,
                                                inc.count[curr]) \o <<LF>>
                /\ headers' = Append(headers, [header |-> header,
                                               index |-> inc.count[curr]])
                /\ header_type_prev' = curr
                /\ UNCHANGED <<pc, error>>

\* lines 172-185: the body of the loop, on what get_md_header returned.
ScanHeader(header) ==
    /\ header_duplicate_counter' = header.counter
    /\ IF header.kind = "raise"
       THEN /\ pc' = "raised"
            /\ error' = header.error
            /\ UNCHANGED <<header_type_counter, header_type_curr,
                           header_type_prev, toc, headers>>
       ELSE IF header.kind = "None"
       THEN UNCHANGED <<pc, error, header_type_counter, header_type_curr,
                        header_type_prev, toc, headers>>
       ELSE FormatHeader(header.header,
                         TrackIndex(header_type_counter, header_type_prev,
                                    header.header.type))

\* lines 171-185: one turn of the loop, on the line that readline returned.
ScanLine(line) ==
    /\ pc = "scan"
    /\ Len(doc) < MaxLines
    /\ doc' = Append(doc, line)
    /\ ScanHeader(get_md_header(line, header_duplicate_counter,
                                keep_header_levels, parser, no_links))
    /\ UNCHANGED <<config, atx_vars, anchor_log>>

\* lines 171 and 187: readline returns '' and build_toc returns toc.
Return ==
    /\ pc = "scan"
    /\ pc' = "returned"
    /\ UNCHANGED <<config, error, build_vars, atx_vars, anchor_log>>

Next ==
    \/ \E line \in NextLines : ScanLine(line)
    \/ Return

Spec == Init /\ [][Next]_vars

(***************************************************************************)
(* get_atx_heading called on one line (api.py, lines 405-587).              *)
(***************************************************************************)
AtxChars == {"#", " ", "a", BS, LF}

\* Marker runs of 1 to 8 characters, after 0, 3 or 4 spaces.
MarkerLines ==
    { Spaces(ind) \o Hashes(n) \o tail :
        ind \in {0, 3, 4}, n \in 1..(MD_PARSER_GITHUB_MAX_HEADER_LEVELS + 2),
        tail \in { <<>>, <<"a">>, <<" ", "a", "b">>, <<" ", "a", "b", LF>> } }

\* Level 1 headings whose text is as long as the longest link label, or one
\* character shorter or longer.
LongLines ==
    { <<"#", " ">> \o Repeat(c, n - 1) \o <<last>> \o end :
        c \in {"a", TAB},
        n \in (MD_PARSER_GITHUB_MAX_CHARS_LINK_LABEL - 1)
                  ..(MD_PARSER_GITHUB_MAX_CHARS_LINK_LABEL + 1),
        last \in {"b", BS, "]", TAB},
        end \in { <<>>, <<LF>> } }

\* Level 1 headings whose text is made of whitespace: short ones, and ones
\* about as long as the longest link label, a run between two characters.
WhitespaceChars == {" ", TAB, VT}

WhitespaceLines ==
    { <<"#", " ">> \o w :
        w \in UNION {[1..n -> WhitespaceChars] : n \in 1..3} }
    \cup
    { <<"#", " ">> \o <<first>> \o Repeat(c, n - 2) \o <<last>> :
        first \in {TAB, VT}, c \in WhitespaceChars,
        n \in (MD_PARSER_GITHUB_MAX_CHARS_LINK_LABEL - 1)
                  ..(MD_PARSER_GITHUB_MAX_CHARS_LINK_LABEL + 1),
        last \in {TAB, VT} }

AtxLines ==
    UNION {[1..n -> AtxChars] : n \in 0..MaxLineLen} \cup MarkerLines
        \cup LongLines \cup WhitespaceLines

InitAtx ==
    /\ parser \in Parsers
    /\ ordered = FALSE
    /\ no_links \in BOOLEAN
    /\ keep_header_levels \in 1..(MD_PARSER_GITHUB_MAX_HEADER_LEVELS + 1)
    /\ pc = "call"
    /\ error = "none"
    /\ BuildLocalsInit
    /\ atx_line \in AtxLines
    /\ atx_result = Pending
    /\ anchor_log = <<>>

AtxCall ==
    /\ pc = "call"
    /\ atx_result' = get_atx_heading(atx_line, keep_header_levels, parser,
                                     no_links)
    /\ pc' = "done"
    /\ error' = atx_result'.error
    /\ UNCHANGED <<config, build_vars, atx_line, anchor_log>>

NextAtx == AtxCall

SpecAtx == InitAtx /\ [][NextAtx]_vars

(***************************************************************************)
(* build_anchor_link called again and again with one counter (api.py,       *)
(* lines 291-402).                                                          *)
(***************************************************************************)
AnchorTexts ==
    { <<"f", "o", "o">>,
      <<"F", "o", "o">>,
      <<"f", "o", "o", "-", "1">>,
      <<"!", "!", "!">>,
      <<"<", "b", ">", "f", "o", "o">>,
      <<"a", "&", "a", "m", "p", ";", "b">> }

InitAnchor ==
    /\ parser \in Parsers
    /\ ordered = FALSE
    /\ no_links = FALSE
    /\ keep_header_levels = 3
    /\ pc = "call"
    /\ error = "none"
    /\ BuildLocalsInit
    /\ AtxIdle
    /\ anchor_log = <<>>

AnchorCall(text) ==
    /\ pc = "call"
    /\ Len(anchor_log) < MaxCalls
    /\ LET link == build_anchor_link(text, header_duplicate_counter, parser)
       IN  /\ header_duplicate_counter' = link.counter
           /\ anchor_log' = Append(anchor_log,
                  [text |-> text,
                   candidate |-> AnchorCandidate(text, parser),
                   kind |-> link.kind,
                   anchor |-> link.anchor])
    /\ UNCHANGED <<config, pc, error, header_type_counter, header_type_curr,
                   header_type_prev, toc, doc, headers, atx_vars>>

NextAnchor == \E text \in AnchorTexts : AnchorCall(text)

SpecAnchor == InitAnchor /\ [][NextAnchor]_vars

(***************************************************************************)
(* increase_index_ordered_list called again and again on one dict (api.py,  *)
(* lines 190-227).  The dict starts with any counts, the largest markers    *)
(* among them.                                                              *)
(***************************************************************************)
IndexLevels == {1, 2}
IndexCounts ==
    {0, 1, MD_PARSER_GITHUB_MAX_ORDERED_LIST_MARKER - 1,
     MD_PARSER_GITHUB_MAX_ORDERED_LIST_MARKER}
IndexDicts == UNION {[d -> IndexCounts] : d \in SUBSET IndexLevels}

InitIndex ==
    /\ parser \in Parsers
    /\ ordered = TRUE
    /\ no_links = FALSE
    /\ keep_header_levels = 3
    /\ pc = "call"
    /\ error = "none"
    /\ header_type_counter \in IndexDicts
    /\ header_type_curr = 0
    /\ header_type_prev = 0
    /\ toc = <<>>
    /\ header_duplicate_counter = EmptyDict
    /\ doc = <<>>
    /\ headers = <<>>
    /\ AtxIdle
    /\ anchor_log = <<>>

\* The calls go on until the count of the level has gone up MaxBumps times
\* from the smallest, or from the largest, counts of IndexCounts.
IndexCountCap(n) ==
    IF n < MD_PARSER_GITHUB_MAX_ORDERED_LIST_MARKER - 1 THEN MaxBumps
    ELSE MD_PARSER_GITHUB_MAX_ORDERED_LIST_MARKER - 1 + MaxBumps

\* One direct call increase_index_ordered_list(header_type_counter, prev,
\* curr, parser): the dict is changed in place, header_type_prev and
\* header_type_curr keep the arguments of the call, and the exception, if
\* any, ends the run.
IndexCall(prev, curr) ==
    /\ pc = "call"
    /\ LET n == IF curr \in DOMAIN header_type_counter
                THEN header_type_counter[curr] ELSE 0
       IN  n < IndexCountCap(n)
    /\ LET inc == increase_index_ordered_list(header_type_counter, prev, curr,
                                              parser)
       IN  /\ header_type_counter' = inc.count
           /\ header_type_prev' = prev
           /\ header_type_curr' = curr
           /\ IF inc.error # "none"
              THEN pc' = "raised" /\ error' = inc.error
              ELSE UNCHANGED <<pc, error>>
    /\ UNCHANGED <<config, toc, header_duplicate_counter, doc, headers,
                   atx_vars, anchor_log>>

NextIndex ==
    \E prev \in {0} \cup IndexLevels, curr \in IndexLevels : IndexCall(prev, curr)

SpecIndex == InitIndex /\ [][NextIndex]_vars

(***************************************************************************)
(* build_anchor_link called once, under gitlab or redcarpet, on any short   *)
(* text (api.py, lines 343-402).                                            *)
(***************************************************************************)
SlugChars == {"!", "a", "B", "-", "<", ">", "&", ";", "U+00E9"}

SlugTexts == UNION {[1..n -> SlugChars] : n \in 0..MaxSlugLen}

InitSlug ==
    /\ parser \in {"gitlab", "redcarpet"}
    /\ ordered = FALSE
    /\ no_links = FALSE
    /\ keep_header_levels = 3
    /\ pc = "call"
    /\ error = "none"
    /\ BuildLocalsInit
    /\ AtxIdle
    /\ anchor_log = <<>>

\* The first call with an empty counter.
SlugCall(text) == Len(anchor_log) = 0 /\ AnchorCall(text)

NextSlug == \E text \in SlugTexts : SlugCall(text)

SpecSlug == InitSlug /\ [][NextSlug]_vars

(***************************************************************************)
(* Properties.                                                              *)
(***************************************************************************)
\* The outcome of the recognizer on a line of the build.
Recognized(line) ==
    get_atx_heading(line, keep_header_levels, parser, no_links)

\* The TOC entries of the headers formatted so far, each with a dash.
RECURSIVE DashEntries(_)
DashEntries(hs) ==
    IF hs = <<>> THEN <<>>
    ELSE LET h == Head(hs).header
         IN  Spaces(4 * (h.type - 1)) \o <<"-", " ">>
                 \o (IF no_links THEN h.text_original
                     ELSE <<"[">> \o h.text_original \o <<"]", "(", "#">>
                              \o h.text_anchor_link \o <<")">>)
                 \o <<LF>> \o DashEntries(Tail(hs))

C1_ExampleDoc ==
    << <<"#", "#", " ", "H", "i", LF>>,
       <<"h", "e", "y", LF>>,
       <<"#", "#", "#", " ", "H", "o", "w", " ", "a", "r", "e", " ", "y", "o",
         "u", "?">> \o Spaces(11) \o <<"!", "!", "!", LF>>,
       <<"f", "i", "n", "e", ",", " ", "t", "h", "a", "n", "k", "s", LF>>,
       <<"#", " ", "B", "y", "e", LF>> >>

C1_ExampleToc ==
    Spaces(4) \o <<"-", " ", "[", "H", "i", "]", "(", "#", "h", "i", ")", LF>>
    \o Spaces(8)
    \o <<"-", " ", "[", "H", "o", "w", " ", "a", "r", "e", " ", "y", "o", "u",
         "?">> \o Spaces(11)
    \o <<"!", "!", "!", "]", "(", "#", "h", "o", "w", "-", "a", "r", "e", "-",
         "y", "o", "u", ")", LF>>
    \o <<"-", " ", "[", "B", "y", "e", "]", "(", "#", "b", "y", "e", ")", LF>>

\* C1: a build that is not ordered, over a document no line of which makes
\* the recognizer raise, never ends in an exception; when it returns, toc
\* holds one entry with a dash per heading line of the document, in order,
\* and nothing else; the example document of build_toc's docstring gives the
\* three entries of that docstring.
C1_UnorderedBuildReturnsDashEntries ==
    (/\ ~ordered
     /\ parser \in KnownParsers
     /\ \A i \in 1..Len(doc) : Recognized(doc[i]).kind # "raise")
    => /\ pc # "raised"
       /\ Len(headers) =
              Cardinality({i \in 1..Len(doc) : Recognized(doc[i]).kind = "heading"})
       /\ toc = DashEntries(headers)
       /\ (/\ pc = "returned" /\ doc = C1_ExampleDoc /\ parser = "gitlab"
           /\ ~no_links /\ keep_header_levels = 3)
          => toc = C1_ExampleToc

\* C2: under github, cmark and gitlab the anchors returned so far with one
\* counter are pairwise distinct.
C2_AnchorsPairwiseDistinct ==
    parser \in {"github", "cmark", "gitlab"}
    => \A i, j \in 1..Len(anchor_log) :
           i # j => anchor_log[i].anchor # anchor_log[j].anchor

\* The number of calls, up to call i, that gave the candidate of call i.
Occurrences(i) ==
    Cardinality({j \in 1..i : anchor_log[j].candidate = anchor_log[i].candidate})

\* The number of calls so far that gave candidate c.
CallsWith(c) ==
    Cardinality({j \in 1..Len(anchor_log) : anchor_log[j].candidate = c})

\* C3: under github and gitlab the first call that gives a candidate returns
\* it as it is and the n-th (n >= 2) returns it with the suffix "-(n-1)", the
\* counter holding, for every candidate (never for a suffixed anchor), the
\* number of calls that gave it; under redcarpet the anchor is the candidate,
\* however often it came.
C3_NthDuplicateSuffix ==
    /\ parser \in {"github", "gitlab"}
       => /\ \A i \in 1..Len(anchor_log) :
                anchor_log[i].anchor =
                    IF Occurrences(i) = 1 THEN anchor_log[i].candidate
                    ELSE anchor_log[i].candidate \o <<"-">>
                             \o Str(Occurrences(i) - 1)
          /\ DOMAIN header_duplicate_counter =
                 {anchor_log[i].candidate : i \in 1..Len(anchor_log)}
          /\ \A c \in DOMAIN header_duplicate_counter :
                 header_duplicate_counter[c] = CallsWith(c)
    /\ parser = "redcarpet"
       => \A i \in 1..Len(anchor_log) :
              anchor_log[i].anchor = anchor_log[i].candidate

\* Three headings with the same candidate under github: the third anchor has
\* the suffix "-2".
C3_Witness ==
    /\ parser = "github"
    /\ Len(anchor_log) >= 3
    /\ anchor_log[1].candidate = <<"f", "o", "o">>
    /\ anchor_log[2].candidate = <<"f", "o", "o">>
    /\ anchor_log[3].candidate = <<"f", "o", "o">>
    /\ anchor_log[3].anchor = <<"f", "o", "o", "-", "2">>

\* The smaller of 6 and keep_header_levels.
C4_MaxLevel == Min(MD_PARSER_GITHUB_MAX_HEADER_LEVELS, keep_header_levels)

\* The number of '#' characters that start the line.
C4_LeadingHashes ==
    WhileUp(0, Len(atx_line), [j \in 0..Len(atx_line) |-> At(atx_line, j) = "#"])

\* C4: under each of the four parsers and with keep_header_levels in 1..6, a
\* heading that get_atx_heading returns has a level in 1..min(6, k), and a
\* line that starts with more than min(6, k) '#' characters gives None.
C4_LevelWithinKeptLevels ==
    (/\ pc = "done"
     /\ parser \in KnownParsers
     /\ keep_header_levels \in 1..MD_PARSER_GITHUB_MAX_HEADER_LEVELS)
    => /\ atx_result.kind = "heading" => atx_result.type \in 1..C4_MaxLevel
       /\ C4_LeadingHashes > C4_MaxLevel => atx_result.kind = "None"

\* The number of headers among the first i that have the level of header i.
C5_SameLevelUpTo(i) ==
    Cardinality({j \in 1..i : headers[j].header.type = headers[i].header.type})

\* The number of headers so far that have level l.
C5_OfLevel(l) ==
    Cardinality({j \in 1..Len(headers) : headers[j].header.type = l})

C5_IndexIsCountOfLevel ==
    ordered
    => /\ \A i \in 1..Len(headers) : headers[i].index = C5_SameLevelUpTo(i)
       /\ DOMAIN header_type_counter =
              {headers[i].header.type : i \in 1..Len(headers)}
       /\ \A l \in DOMAIN header_type_counter :
              header_type_counter[l] = C5_OfLevel(l)

C5_CounterStep ==
    \A l \in DOMAIN header_type_counter :
        l \in DOMAIN header_type_counter'
        /\ header_type_counter'[l] >= header_type_counter[l]

\* C5: in an ordered build every header gets as index the number of headers
\* of its level formatted so far, itself included, whatever the levels in
\* between (a level not seen before gives 1); the counter of a level is that
\* number, and no step of the build lowers or drops a counter.
C5_OrderedIndexPerLevel ==
    [](C5_IndexIsCountOfLevel) /\ [][C5_CounterStep]_vars

\* An ordered build over headings of levels 2, 3, 3, 2 (those of the kept
\* lines): the indices are 1, 1, 2, 2.
C5_Witness ==
    /\ ordered
    /\ Len(headers) = 4
    /\ headers[1].header.type = 2 /\ headers[1].index = 1
    /\ headers[2].header.type = 3 /\ headers[2].index = 1
    /\ headers[3].header.type = 3 /\ headers[3].index = 2
    /\ headers[4].header.type = 2 /\ headers[4].index = 2

C6_NoLineEnding == \A j \in 1..Len(atx_line) : atx_line[j] \notin {LF, CR}

\* C6: for a line without a line ending character, get_atx_heading gives the
\* same outcome on the line and on the line followed by "\n".
C6_LineEndingTolerated ==
    (pc = "done" /\ parser \in KnownParsers /\ C6_NoLineEnding)
    => atx_result = get_atx_heading(atx_line \o <<LF>>, keep_header_levels,
                                    parser, no_links)

\* C7: once a line read makes the recognizer raise, the build has raised that
\* error and returns nothing; the github document "# \n" raises
\* GithubEmptyLinkLabel when links are enabled, and raises nothing when they
\* are not.
C7_ErrorAbortsBuild ==
    /\ \A i \in 1..Len(doc) :
           (parser \in KnownParsers /\ Recognized(doc[i]).kind = "raise")
           => (pc = "raised" /\ error = Recognized(doc[i]).error)
    /\ (GithubLike(parser) /\ doc = << <<"#", " ", LF>> >>)
       => IF no_links THEN error = "none"
          ELSE pc = "raised" /\ error = "GithubEmptyLinkLabel"

\* The heading text of the line before the link label checks: what the call
\* returns with links disabled.
C8_Text == get_atx_heading(atx_line, keep_header_levels, parser, TRUE)

C8_RaisedOverflow ==
    atx_result.kind = "raise" /\ atx_result.error = "GithubOverflowCharsLinkLabel"

\* C8 as stated: under github and cmark with links enabled, a heading line
\* raises GithubOverflowCharsLinkLabel exactly when its heading text is
\* longer than 999 characters.
C8_OverflowIffTextOver999 ==
    (pc = "done" /\ GithubLike(parser) /\ ~no_links)
    => LET t == C8_Text
       IN  t.kind = "heading"
           => (C8_RaisedOverflow
               <=> Len(t.text) > MD_PARSER_GITHUB_MAX_CHARS_LINK_LABEL)

\* The link label: the text, and the space that follows a last backslash.
C8_Label(text) ==
    IF Len(text) > 0 /\ text[Len(text)] = BS THEN text \o <<" ">> ELSE text

\* The turn of a whitespace character in the strips of lines 520-522 (space,
\* tab, LF, VT, FF, CR), and 0 for every other character.
C8_Turn(c) ==
    IF c = " " THEN 1 ELSE IF c = TAB THEN 2 ELSE IF c = LF THEN 3
    ELSE IF c = VT THEN 4 ELSE IF c = FF THEN 5 ELSE IF c = CR THEN 6 ELSE 0

\* The strips, each made once and in that order, leave nothing of the label:
\* its characters are all whitespace, and from both ends towards a place in
\* the label their turns never go down.
C8_Emptied(label) ==
    LET n == Len(label)
        top == WhileUp(1, n, [j \in 0..n |->
                   C8_Turn(label[j]) <= C8_Turn(label[j + 1])])
    IN  /\ \A j \in 1..n : C8_Turn(label[j]) > 0
        /\ \A j \in top..(n - 1) : C8_Turn(label[j]) >= C8_Turn(label[j + 1])

C8_RaisedEmpty ==
    atx_result.kind = "raise" /\ atx_result.error = "GithubEmptyLinkLabel"

\* C8, amended: under github and cmark with links enabled, a heading line
\* whose link label (the text, with the space that is appended after a last
\* backslash) is emptied by the strips raises GithubEmptyLinkLabel, whatever
\* its length; every other heading line raises GithubOverflowCharsLinkLabel
\* exactly when its link label is longer than 999 characters.
C8_OverflowIffLabelOver999 ==
    (pc = "done" /\ GithubLike(parser) /\ ~no_links)
    => LET t == C8_Text
       IN  t.kind = "heading"
           => IF C8_Emptied(C8_Label(t.text)) THEN C8_RaisedEmpty
              ELSE (C8_RaisedOverflow
                    <=> Len(C8_Label(t.text))
                            > MD_PARSER_GITHUB_MAX_CHARS_LINK_LABEL)

\* A text of 999 characters that ends with a backslash has raised the error,
\* under github with links enabled.
C8_Witness ==
    /\ pc = "done" /\ parser = "github" /\ ~no_links
    /\ C8_RaisedOverflow
    /\ LET t == C8_Text
       IN  /\ t.kind = "heading"
           /\ Len(t.text) = MD_PARSER_GITHUB_MAX_CHARS_LINK_LABEL
           /\ t.text[Len(t.text)] = BS

\* C9: with a parser that is none of the four, build_toc never returns, and
\* it raises before it reads a line.
C9_UnknownParserFailsFast ==
    parser \notin KnownParsers
    => /\ pc # "returned"
       /\ Len(doc) = 0

\* C10: a call under github or cmark that takes a count above 999999999
\* raises GithubOverflowOrderedListMarker, and a call under gitlab or
\* redcarpet raises nothing.
C10_OverflowUnderGithubAndCmark ==
    header_type_curr # 0
    => /\ (/\ GithubLike(parser)
           /\ header_type_counter[header_type_curr]
                  > MD_PARSER_GITHUB_MAX_ORDERED_LIST_MARKER)
          => (pc = "raised" /\ error = "GithubOverflowOrderedListMarker")
       /\ RedcarpetLike(parser) => error = "none"

\* A natural number as two limbs, hi * 16^5 + lo: TLC's integers have 32
\* bits, the hash of a text of 4 characters has more.
C11_Limb == 16 ^ 5

\* hash * mult + code_point on the limbs.
C11_Step(h, code_point, mult) ==
    LET lo == h.lo * mult + code_point
    IN  [hi |-> h.hi * mult + (lo \div C11_Limb), lo |-> lo % C11_Limb]

\* The hash of the first n characters of the text, from the seed 5381.
RECURSIVE C11_Hash(_, _, _)
C11_Hash(text, n, mult) ==
    IF n = 0 THEN [hi |-> 0, lo |-> 5381]
    ELSE C11_Step(C11_Hash(text, n - 1, mult), Ord(text[n]), mult)

\* The lowercase hexadecimal form of a natural number, and of the limbs.
RECURSIVE C11_Hex(_)
C11_Hex(n) ==
    IF n < 16 THEN <<HexChars[n + 1]>>
    ELSE C11_Hex(n \div 16) \o <<HexChars[(n % 16) + 1]>>

C11_LowerHex(h) ==
    IF h.hi = 0 THEN C11_Hex(h.lo)
    ELSE LET low == C11_Hex(h.lo)
         IN  C11_Hex(h.hi) \o Repeat("0", 5 - Len(low)) \o low

\* "part-" and the hash of the text taken with the step hash * mult + code_point.
C11_Fallback(text, mult) ==
    <<"p", "a", "r", "t", "-">> \o C11_LowerHex(C11_Hash(text, Len(text), mult))

\* The number of characters of the text that the scan inserts: the ASCII
\* characters that are none of STRIPPED, '<' and '&'.
C11_Inserted(text) ==
    Cardinality({j \in 1..Len(text) :
                    /\ IsAscii(text[j])
                    /\ text[j] \notin StrippedChars \cup {"<", "&"}})

\* The fallback with the given step is used on the texts (not empty) that
\* insert no character, and on no other text.
C11_FallbackWithStep(mult) ==
    RedcarpetLike(parser)
    => \A i \in 1..Len(anchor_log) :
           LET text == anchor_log[i].text
           IN  IF C11_Inserted(text) = 0 /\ Len(text) > 0
               THEN anchor_log[i].candidate = C11_Fallback(text, mult)
               ELSE anchor_log[i].candidate # C11_Fallback(text, mult)

\* C11 as stated: the candidate of a text that inserts no character is
\* "part-" and the lowercase hexadecimal hash taken from the seed 5381 with
\* the step hash = hash * 33 + hash + code_point; a text that inserts a
\* character never gets the fallback.
C11_HashStepTimes33PlusHash == C11_FallbackWithStep(34)

\* C11, amended: the same with the step hash = hash * 33 + code_point (the
\* DJB2 step, (hash << 5) + hash + code_point).
C11_HashStepTimes33 == C11_FallbackWithStep(33)

\* The slug of "!!!" was built: part-b8743a8.
C11_Witness ==
    /\ RedcarpetLike(parser)
    /\ Len(anchor_log) = 1
    /\ anchor_log[1].text = <<"!", "!", "!">>
    /\ anchor_log[1].candidate = <<"p", "a", "r", "t", "-", "b", "8", "7", "4", "3", "a", "8">>
    /\ anchor_log[1].anchor = anchor_log[1].candidate

\* The position after the run of c that starts at position i of s, and the
\* position before the run of c that ends at position i.
C12_After(s, i, c) == WhileUp(i, Len(s), [j \in 0..Len(s) |-> At(s, j) = c])
C12_Before(s, i, c) == WhileDown(i, 0, [j \in 0..Len(s) |-> At(s, j) = c])

\* The content of a heading line: what follows the indentation, the marker
\* run and the spaces after it.
C12_Content(line) ==
    LET marker == C12_After(line, 0, " ")
        spaces == C12_After(line, marker, "#")
    IN  Slice(line, C12_After(line, spaces, " "), Len(line))

\* The content without its closing sequence: without the spaces that end
\* it and, when the run of '#' before them follows a space (or is the whole
\* content), without that run and the spaces before it.
C12_WithoutClosingSequence(content) ==
    LET text_end == C12_Before(content, Len(content), " ")
        run_start == C12_Before(content, text_end, "#")
    IN  IF run_start < text_end
           /\ (run_start = 0 \/ At(content, run_start - 1) = " ")
        THEN Slice(content, 0, C12_Before(content, run_start, " "))
        ELSE Slice(content, 0, text_end)

\* C12: under github and cmark the text returned for a heading line without
\* a line ending is the content of the line without its closing sequence
\* (taken with links disabled, where the text is returned as it was cut).
C12_TextIsContentWithoutClosingSequence ==
    (pc = "done" /\ GithubLike(parser) /\ no_links /\ C6_NoLineEnding
        /\ atx_result.kind = "heading")
    => atx_result.text = C12_WithoutClosingSequence(C12_Content(atx_line))

\* The text from position i without its spans: a span goes from a '<' to
\* the next '>', or from a '&' to the next ';', both included (to the end of
\* the text when it is not closed).
RECURSIVE C13_WithoutSpans(_, _)
C13_WithoutSpans(text, i) ==
    IF ~(i < Len(text)) THEN <<>>
    ELSE IF At(text, i) = "<"
    THEN C13_WithoutSpans(text, SkipUntil(text, i, ">") + 1)
    ELSE IF At(text, i) = "&"
    THEN C13_WithoutSpans(text, SkipUntil(text, i, ";") + 1)
    ELSE <<At(text, i)>> \o C13_WithoutSpans(text, i + 1)

\* C13: under gitlab and redcarpet the spans of a text leave nothing in its
\* candidate anchor: the candidate is the one of the text without its spans
\* (for a text that has a character to insert outside its spans).
C13_SpansSkippedWholesale ==
    RedcarpetLike(parser)
    => \A i \in 1..Len(anchor_log) :
           LET bare == C13_WithoutSpans(anchor_log[i].text, 0)
           IN  C11_Inserted(bare) > 0
               => anchor_log[i].candidate = RedcarpetCandidate(bare)

====
